---- MODULE Spec2Model ----
(***************************************************************************)
(* Model of pkg/vlt/store/store.go: the Store facade over a SQLite handle  *)
(* (master_key, secrets and labels tables), the composition of the search  *)
(* queries (whereGlobOrClause), their execution by the engine, and the     *)
(* row aggregator reduce.                                                  *)
(*                                                                         *)
(* Strings that are matched or parsed are sequences of one-character       *)
(* strings; query texts are sequences of SQL tokens.                       *)
(***************************************************************************)
EXTENDS Integers, Sequences, FiniteSets, TLC

VARIABLES master_key, secrets, labels, last_insert_rowid, first_key, call

vars == <<master_key, secrets, labels, last_insert_rowid, first_key, call>>

(***************************************************************************)
(* Bounds of the model.                                                    *)
(***************************************************************************)
\* Rows the secrets and labels tables hold together.
MaxStoreRows == 3
\* Patterns in one search call.
MaxPatterns == 2
\* Ids in one SecretsByIDs call.
MaxIds == 2
\* Rows in one input of reduce.
MaxRows == 3

(***************************************************************************)
(* Input domains.                                                          *)
(***************************************************************************)
Keys == {"k1", "k2"}
Payloads == {"p1", "p2"}
SecretNames == {<<"g", "i">>, <<"m">>}
LabelNames == {<<"w">>, <<"g", "h">>}
Patterns == {<<"g", "*">>, <<"w">>}
Columns == {"label", "secret_name"}

SeqsUpTo(S, n) == UNION {[1..k -> S] : k \in 0..n}

(***************************************************************************)
(* Values of the Go side.                                                  *)
(***************************************************************************)
Nil == "nil"
ErrNoLabelsProvided == "no labels provided"
ErrNoIDsProvided == "no IDs provided"
ErrNoRows == "sql: no rows in result set"
ErrScanNull == "sql: Scan error: converting NULL to string is unsupported"
ErrDatatypeMismatch == "datatype mismatch"
ErrForeignKey == "FOREIGN KEY constraint failed"
ErrBind == "not enough args to execute query"

\* The SQL NULL of a text column (a name never inserted).
NULL == <<"<NULL>">>

\* A Go map[int]LabeledSecret: nil, or a function from ids to LabeledSecret.
NilMap == [isNil |-> TRUE, m |-> <<>>]
MakeMap(m) == [isNil |-> FALSE, m |-> m]

NoCall ==
  [op |-> "none", args |-> <<>>, res |-> Nil, err |-> Nil, dbcalls |-> 0,
   query |-> <<>>, qargs |-> <<>>]

Returned(op, args, res, err, dbcalls) ==
  [op |-> op, args |-> args, res |-> res, err |-> err, dbcalls |-> dbcalls,
   query |-> <<>>, qargs |-> <<>>]

(***************************************************************************)
(* The engine: rowids, integer affinity, GLOB.                             *)
(***************************************************************************)
SetMax(S) == CHOOSE x \in S : \A y \in S : y <= x

\* The rowid an INSERT without an explicit id generates.
NextRowid(table) == IF table = {} THEN 1 ELSE SetMax({r.id : r \in table}) + 1

Digits == <<"0", "1", "2", "3", "4", "5", "6", "7", "8", "9">>
IsDigit(c) == \E d \in 1..10 : Digits[d] = c
DigitVal(c) == (CHOOSE d \in 1..10 : Digits[d] = c) - 1

RECURSIVE ParseInt(_, _)
ParseInt(s, acc) ==
  IF s = <<>> THEN acc ELSE ParseInt(Tail(s), acc * 10 + DigitVal(Head(s)))

\* A text value bound to the INTEGER PRIMARY KEY column: the integer it
\* spells, or -1 for a datatype mismatch.
ToRowid(s) ==
  IF s # <<>> /\ \A i \in 1..Len(s) : IsDigit(s[i]) THEN ParseInt(s, 0) ELSE -1

DecStr(n) == IF n < 10 THEN <<Digits[n + 1]>> ELSE <<Digits[(n \div 10) + 1], Digits[(n % 10) + 1]>>

SecretIds == 1..2
IdStrings == {DecStr(i) : i \in SecretIds} \cup {<<"0", "1">>, <<"x">>}

\* The store has room for one more row.
HasRoom == Cardinality(secrets) + Cardinality(labels) < MaxStoreRows

RECURSIVE GlobMatch(_, _)
GlobMatch(p, s) ==
  IF p = <<>> THEN s = <<>>
  ELSE IF Head(p) = "*"
       THEN GlobMatch(Tail(p), s) \/ (s # <<>> /\ GlobMatch(p, Tail(s)))
       ELSE /\ s # <<>>
            /\ (Head(p) = "?" \/ Head(p) = Head(s))
            /\ GlobMatch(Tail(p), Tail(s))

\* value GLOB pattern; NULL GLOB pattern is NULL, which is not true.
Glob(value, pattern) == value # NULL /\ GlobMatch(pattern, value)

(***************************************************************************)
(* Schema (master_key, secrets, labels) and the state after opening an     *)
(* empty vault.                                                            *)
(***************************************************************************)
\* secrets.name has no NOT NULL constraint: a row inserted without a name
\* holds NULL.
SecretsNameDefault == NULL

\* labels.secret_id references secrets.id.
LabelsForeignKeyHolds(secretID) == \E s \in secrets : s.id = secretID

Init ==
  /\ master_key = {}
  /\ secrets = {}
  /\ labels = {}
  /\ last_insert_rowid = 0
  /\ first_key = Nil
  /\ call = NoCall

(***************************************************************************)
(* Master key.                                                             *)
(***************************************************************************)
\* Faulty variant: INSERT OR REPLACE, the row is overwritten.
InsertMasterKeyRows_Overwrite(key) == {[id |-> 0, key |-> key]}

\* INSERT INTO master_key (id, key) VALUES (0, $1) ON CONFLICT (id) DO NOTHING
InsertMasterKeyRows(key) ==
  IF \E r \in master_key : r.id = 0
  THEN master_key
  ELSE master_key \cup {[id |-> 0, key |-> key]}

InsertMasterKey(key) ==
  /\ master_key' = InsertMasterKeyRows(key)
  /\ last_insert_rowid' = IF master_key' # master_key THEN 0 ELSE last_insert_rowid
  /\ first_key' = IF first_key = Nil THEN key ELSE first_key
  /\ call' = Returned("InsertMasterKey", <<key>>, Nil, Nil, 1)
  /\ UNCHANGED <<secrets, labels>>

\* SELECT key FROM master_key WHERE id = 0, scanned into a string.
QueryMasterKey ==
  /\ call' = IF \E r \in master_key : r.id = 0
             THEN Returned("QueryMasterKey", <<>>,
                           (CHOOSE r \in master_key : r.id = 0).key, Nil, 1)
             ELSE Returned("QueryMasterKey", <<>>, "", ErrNoRows, 1)
  /\ UNCHANGED <<master_key, secrets, labels, last_insert_rowid, first_key>>

(***************************************************************************)
(* Secrets.                                                                *)
(***************************************************************************)
\* INSERT INTO secrets (name, secret) VALUES ($1, $2); LastInsertId.
InsertNewSecret(name, secret) ==
  LET id == NextRowid(secrets) IN
  /\ HasRoom
  /\ secrets' = secrets \cup {[id |-> id, name |-> name, secret |-> secret]}
  /\ last_insert_rowid' = id
  /\ call' = Returned("InsertNewSecret", <<name, secret>>, id, Nil, 1)
  /\ UNCHANGED <<master_key, labels, first_key>>

\* Faulty variant: INSERT OR REPLACE, the whole row is replaced and its name lost.
UpsertSecretRows_ReplaceRow(rowid, secret) ==
  {s \in secrets : s.id # rowid}
    \cup {[id |-> rowid, name |-> SecretsNameDefault, secret |-> secret]}

\* INSERT INTO secrets (id, secret) VALUES ($1, $2)
\*   ON CONFLICT (id) DO UPDATE SET secret = EXCLUDED.secret
UpsertSecretRows(rowid, secret) ==
  IF \E s \in secrets : s.id = rowid
  THEN {IF s.id = rowid THEN [s EXCEPT !.secret = secret] ELSE s : s \in secrets}
  ELSE secrets \cup {[id |-> rowid, name |-> SecretsNameDefault, secret |-> secret]}

UpsertSecret(id, secret) ==
  LET rowid == ToRowid(id) IN
  IF rowid < 0
  THEN /\ call' = Returned("UpsertSecret", <<id, secret>>, 0, ErrDatatypeMismatch, 1)
       /\ UNCHANGED <<master_key, secrets, labels, last_insert_rowid, first_key>>
  ELSE /\ (\E s \in secrets : s.id = rowid) \/ HasRoom
       /\ secrets' = UpsertSecretRows(rowid, secret)
       /\ last_insert_rowid' = IF \E s \in secrets : s.id = rowid
                               THEN last_insert_rowid
                               ELSE rowid
       /\ call' = Returned("UpsertSecret", <<id, secret>>, 1, Nil, 1)
       /\ UNCHANGED <<master_key, labels, first_key>>

\* SELECT secret FROM secrets WHERE id = $1, scanned into a string.
Secret(id) ==
  /\ call' = IF \E s \in secrets : s.id = id
             THEN Returned("Secret", <<id>>,
                           (CHOOSE s \in secrets : s.id = id).secret, Nil, 1)
             ELSE Returned("Secret", <<id>>, "", ErrNoRows, 1)
  /\ UNCHANGED <<master_key, secrets, labels, last_insert_rowid, first_key>>

(***************************************************************************)
(* Labels.                                                                 *)
(***************************************************************************)
\* Faulty variant: a plain INSERT, no conflict is ever detected.
LabelsConflict_Never(name, secretID) == FALSE

\* ON CONFLICT (name, secret_id): the pair is already in the labels table.
LabelsConflict(name, secretID) ==
  \E l \in labels : l.name = name /\ l.secret_id = secretID

\* res.LastInsertId(): the rowid of the connection's most recent successful
\* INSERT, which a statement that inserted nothing leaves as it was.
LastInsertId(inserted, rowid) == IF inserted THEN rowid ELSE last_insert_rowid

\* INSERT INTO labels (name, secret_id) VALUES ($1, $2)
\*   ON CONFLICT (name, secret_id) DO NOTHING; LastInsertId.
InsertLabel(name, secretID) ==
  LET id == NextRowid(labels) IN
  IF LabelsConflict(name, secretID)
  THEN /\ call' = Returned("InsertLabel", <<name, secretID>>,
                           LastInsertId(FALSE, id), Nil, 1)
       /\ UNCHANGED <<master_key, secrets, labels, last_insert_rowid, first_key>>
  ELSE IF ~LabelsForeignKeyHolds(secretID)
  THEN /\ call' = Returned("InsertLabel", <<name, secretID>>, 0, ErrForeignKey, 1)
       /\ UNCHANGED <<master_key, secrets, labels, last_insert_rowid, first_key>>
  ELSE /\ HasRoom
       /\ labels' = labels \cup {[id |-> id, name |-> name, secret_id |-> secretID]}
       /\ last_insert_rowid' = id
       /\ call' = Returned("InsertLabel", <<name, secretID>>,
                           LastInsertId(TRUE, id), Nil, 1)
       /\ UNCHANGED <<master_key, secrets, first_key>>

(***************************************************************************)
(* Query composition.                                                      *)
(***************************************************************************)
\* cmdutil.ToAnySlice: the same elements, in order, as []any.
ToAnySlice(xs) == [i \in 1..Len(xs) |-> xs[i]]

RECURSIVE Join(_, _)
\* strings.Join over token sequences.
Join(parts, sep) ==
  IF parts = <<>> THEN <<>>
  ELSE IF Len(parts) = 1 THEN parts[1]
  ELSE parts[1] \o sep \o Join(Tail(parts), sep)

SelectJoin(nameColumn) ==
  <<"SELECT", "s.id", ",">> \o nameColumn \o
  <<",", "l.name", "AS", "label",
    "FROM", "secrets", "s", "JOIN", "labels", "l", "ON", "s.id", "=", "l.secret_id">>

\* Faulty variant: the predicates are joined with AND.
whereGlobOrClause_AndJoined(col, patterns) ==
  IF Len(patterns) = 0
  THEN <<>>
  ELSE <<"WHERE">> \o Join([i \in 1..Len(patterns) |-> <<col, "GLOB", "?">>], <<"AND">>)

\* whereGlobOrClause: "" for no patterns, else WHERE col GLOB ? OR col GLOB ? ...
whereGlobOrClause(col, patterns) ==
  IF Len(patterns) = 0
  THEN <<>>
  ELSE <<"WHERE">> \o Join([i \in 1..Len(patterns) |-> <<col, "GLOB", "?">>], <<"OR">>)

SecretsByColumnQuery(col, patterns) ==
  SelectJoin(<<"s.name", "AS", "secret_name">>) \o whereGlobOrClause(col, patterns)

SecretsByIDsQuery(ids) ==
  SelectJoin(<<"s.name">>) \o <<"WHERE", "s.id", "IN", "(">>
    \o Join([i \in 1..Len(ids) |-> <<"?">>], <<",">>) \o <<")">>

\* The clause ends in "?" and the suffix starts with "AND": the tokenizer
\* reads "?AND" as the two tokens "?" and "AND".
SecretsByLabelsAndNameQuery(labelPatterns) ==
  SelectJoin(<<"s.name", "AS", "secret_name">>)
    \o whereGlobOrClause("label", labelPatterns)
    \o <<"AND", "secret_name", "GLOB", "?">>

\* Faulty variant: the name pattern is bound first.
SecretsByLabelsAndNameArgs_NameFirst(name, labelPatterns) ==
  <<name>> \o ToAnySlice(labelPatterns)

SecretsByLabelsAndNameArgs(name, labelPatterns) ==
  Append(ToAnySlice(labelPatterns), name)

(***************************************************************************)
(* Query execution: the join, and the WHERE clause as the engine parses    *)
(* it (AND binds tighter than OR; the k-th "?" is bound to the k-th        *)
(* argument).                                                              *)
(***************************************************************************)
\* secrets s JOIN labels l ON s.id = l.secret_id, with the select list.
JoinedRows ==
  {[id |-> s.id, name |-> s.name, label |-> l.name, lid |-> l.id] :
     <<s, l>> \in {p \in secrets \X labels : p[1].id = p[2].secret_id}}

CountParams(q, upto) == Cardinality({p \in 1..upto : q[p] = "?"})

WherePos(q) == IF \E p \in 1..Len(q) : q[p] = "WHERE"
               THEN CHOOSE p \in 1..Len(q) : q[p] = "WHERE"
               ELSE 0

\* The maximal runs of tokens in lo..hi that hold no sep.
Segments(q, lo, hi, sep) ==
  {seg \in (lo..hi) \X (lo..hi) :
     /\ seg[1] <= seg[2]
     /\ \A p \in seg[1]..seg[2] : q[p] # sep
     /\ (seg[1] = lo \/ q[seg[1] - 1] = sep)
     /\ (seg[2] = hi \/ q[seg[2] + 1] = sep)}

ColumnValue(row, col) ==
  CASE col = "label" -> row.label
    [] col = "secret_name" -> row.name
    [] col = "s.name" -> row.name
    [] col = "l.name" -> row.label
    [] OTHER -> NULL

\* One predicate: col GLOB ?, or s.id IN ( ? , ... ).
EvalAtom(q, args, row, a, b) ==
  IF q[a + 1] = "GLOB"
  THEN Glob(ColumnValue(row, q[a]), args[CountParams(q, a + 2)])
  ELSE \E p \in a..b : q[p] = "?" /\ args[CountParams(q, p)] = row.id

\* The WHERE clause as a disjunction of conjunctions of predicates.
Disjuncts(q) ==
  {Segments(q, d[1], d[2], "AND") : d \in Segments(q, WherePos(q) + 1, Len(q), "OR")}

SelectedRows(q, args) ==
  LET ds == Disjuncts(q) IN
  IF WherePos(q) = 0
  THEN JoinedRows
  ELSE {row \in JoinedRows :
          \E d \in ds : \A c \in d : EvalAtom(q, args, row, c[1], c[2])}

\* The orders in which the engine may return a set of rows (no ORDER BY).
RowOrders(rows) ==
  {o \in [1..Cardinality(rows) -> rows] : \A i, j \in DOMAIN o : o[i] = o[j] => i = j}

(***************************************************************************)
(* The row aggregator.                                                     *)
(***************************************************************************)
\* m[k] = v on a Go map.
MapPut(m, k, v) == [x \in (DOMAIN m) \cup {k} |-> IF x = k THEN v ELSE m[x]]

\* Faulty variant: every row of an id overwrites the name.
reduceStep_OverwriteName(m, s) ==
  IF s.id \notin DOMAIN m
  THEN MapPut(m, s.id, [Name |-> s.name, Labels |-> <<s.label>>])
  ELSE MapPut(m, s.id, [Name |-> s.name, Labels |-> Append(m[s.id].Labels, s.label)])

\* One iteration of reduce's loop over the row s.
reduceStep(m, s) ==
  IF s.id \notin DOMAIN m
  THEN MapPut(m, s.id, [Name |-> s.name, Labels |-> <<s.label>>])
  ELSE MapPut(m, s.id, [m[s.id] EXCEPT !.Labels = Append(@, s.label)])

RECURSIVE reduceFrom(_, _, _)
reduceFrom(rows, i, m) ==
  IF i > Len(rows) THEN m ELSE reduceFrom(rows, i + 1, reduceStep(m, rows[i]))

reduce(rows) == reduceFrom(rows, 1, <<>>)

\* rows.Scan into a secretLabelRow: a NULL name does not convert to string.
ScanFails(row) == row.name = NULL

\* secretsJoinLabels after QueryContext returned the rows in the order o.
ScanAndReduce(o) ==
  IF \E i \in DOMAIN o : ScanFails(o[i])
  THEN [res |-> NilMap, err |-> ErrScanNull]
  ELSE [res |-> MakeMap(reduce([i \in DOMAIN o |->
                  [id |-> o[i].id, name |-> o[i].name, label |-> o[i].label]])),
        err |-> Nil]

\* secretsJoinLabels: QueryContext(query, args...), scan every row, reduce.
secretsJoinLabels(op, opargs, query, args) ==
  /\ IF CountParams(query, Len(query)) # Len(args)
     THEN call' = [op |-> op, args |-> opargs, res |-> NilMap, err |-> ErrBind,
                   dbcalls |-> 1, query |-> query, qargs |-> args]
     ELSE \E o \in RowOrders(SelectedRows(query, args)) :
            call' = [op |-> op, args |-> opargs, res |-> ScanAndReduce(o).res,
                     err |-> ScanAndReduce(o).err,
                     dbcalls |-> 1, query |-> query, qargs |-> args]
  /\ UNCHANGED <<master_key, secrets, labels, last_insert_rowid, first_key>>

(***************************************************************************)
(* The three searches.                                                     *)
(***************************************************************************)
SecretsByColumn(col, patterns) ==
  secretsJoinLabels("SecretsByColumn", <<col, patterns>>,
                    SecretsByColumnQuery(col, patterns), ToAnySlice(patterns))

\* Faulty variant: no check of the empty id list.
SecretsByIDs_NoEmptyCheck(ids) ==
  secretsJoinLabels("SecretsByIDs", <<ids>>, SecretsByIDsQuery(ids), ToAnySlice(ids))

SecretsByIDs(ids) ==
  IF Len(ids) = 0
  THEN /\ call' = Returned("SecretsByIDs", <<ids>>, NilMap, ErrNoIDsProvided, 0)
       /\ UNCHANGED <<master_key, secrets, labels, last_insert_rowid, first_key>>
  ELSE secretsJoinLabels("SecretsByIDs", <<ids>>, SecretsByIDsQuery(ids), ToAnySlice(ids))

SecretsByLabelsAndName(name, labelPatterns) ==
  IF Len(labelPatterns) = 0
  THEN /\ call' = Returned("SecretsByLabelsAndName", <<name, labelPatterns>>,
                           NilMap, ErrNoLabelsProvided, 0)
       /\ UNCHANGED <<master_key, secrets, labels, last_insert_rowid, first_key>>
  ELSE secretsJoinLabels("SecretsByLabelsAndName", <<name, labelPatterns>>,
                         SecretsByLabelsAndNameQuery(labelPatterns),
                         SecretsByLabelsAndNameArgs(name, labelPatterns))

\* reduce applied to an arbitrary row sequence.
Reduce(rows) ==
  /\ call' = Returned("reduce", <<rows>>, reduce(rows), Nil, 0)
  /\ UNCHANGED <<master_key, secrets, labels, last_insert_rowid, first_key>>

(***************************************************************************)
(* Specifications.                                                         *)
(***************************************************************************)
\* The vault's writes and lookups: master key and secrets.
Next ==
  \/ \E key \in Keys : InsertMasterKey(key)
  \/ QueryMasterKey
  \/ \E secret \in Payloads : InsertNewSecret(<<"g", "i">>, secret)
  \/ \E id \in IdStrings, secret \in Payloads : UpsertSecret(id, secret)
  \/ \E id \in SecretIds : Secret(id)

Spec == Init /\ [][Next]_vars

\* Labels attached to secrets, among other inserts on the same connection.
LabelNext ==
  \/ \E name \in SecretNames, secret \in Payloads : InsertNewSecret(name, secret)
  \/ \E name \in LabelNames, secretID \in SecretIds : InsertLabel(name, secretID)

LabelSpec == Init /\ [][LabelNext]_vars

SearchOps == {"SecretsByColumn", "SecretsByIDs", "SecretsByLabelsAndName"}

\* A store filled by inserts and upserts, and the three searches over it.
\* A search writes no table and its result depends on the tables alone, so
\* a search taken right after a search reaches no state that a search
\* taken after the last write does not reach: searches are scheduled
\* after writes only.
SearchNext ==
  \/ \E name \in SecretNames : InsertNewSecret(name, "p1")
  \/ \E id \in IdStrings : UpsertSecret(id, "p1")
  \/ \E name \in LabelNames, secretID \in SecretIds : InsertLabel(name, secretID)
  \/ /\ call.op \notin SearchOps
     /\ \E col \in Columns, patterns \in SeqsUpTo(Patterns, MaxPatterns) :
          SecretsByColumn(col, patterns)
  \/ /\ call.op \notin SearchOps
     /\ \E ids \in SeqsUpTo(SecretIds, MaxIds) : SecretsByIDs(ids)
  \/ /\ call.op \notin SearchOps
     /\ \E name \in Patterns, labelPatterns \in SeqsUpTo(Patterns, MaxPatterns) :
          SecretsByLabelsAndName(name, labelPatterns)

SearchSpec == Init /\ [][SearchNext]_vars

\* reduce over every row sequence, whether or not a join can produce it.
ReduceRows == [id : SecretIds, name : SecretNames, label : LabelNames]

\* Each input is reduced from the initial state.
ReduceNext ==
  /\ call = NoCall
  /\ \E rows \in SeqsUpTo(ReduceRows, MaxRows) : Reduce(rows)

ReduceSpec == Init /\ [][ReduceNext]_vars

(***************************************************************************)
(* Properties.                                                             *)
(***************************************************************************)
\* The labels of a secret, as the labels table holds them.
LabelNamesOf(id) == {l.name : l \in {x \in labels : x.secret_id = id}}

\* The secrets with at least one label matching at least one pattern.
MatchingAnyLabel(patterns) ==
  {s.id : s \in {x \in secrets :
     \E l \in labels : /\ l.secret_id = x.id
                       /\ \E i \in 1..Len(patterns) : Glob(l.name, patterns[i])}}

\* The secrets whose name matches the pattern.
MatchingName(pattern) == {s.id : s \in {x \in secrets : Glob(x.name, pattern)}}

SeqRange(s) == {s[i] : i \in 1..Len(s)}

\* C1: SecretsByLabelsAndName(name, labels...) returns exactly the secrets
\* whose name matches the name pattern and that have a label matching one of
\* the label patterns: the intersection, never a secret whose name does not
\* match.
C1_LabelsAndNameIsIntersection ==
  (call.op = "SecretsByLabelsAndName" /\ Len(call.args[2]) > 0 /\ call.err = Nil) =>
    /\ ~call.res.isNil
    /\ DOMAIN call.res.m = MatchingAnyLabel(call.args[2]) \cap MatchingName(call.args[1])

\* C2: SecretsByColumn("label") with zero patterns returns every secret of
\* the secrets table, a secret without labels included, each with all of its
\* labels.
C2_NoPatternsReturnsEverySecret ==
  (call.op = "SecretsByColumn" /\ call.args[1] = "label" /\ Len(call.args[2]) = 0
     /\ call.err = Nil) =>
    /\ ~call.res.isNil
    /\ DOMAIN call.res.m = {s.id : s \in secrets}
    /\ \A id \in DOMAIN call.res.m :
         /\ SeqRange(call.res.m[id].Labels) = LabelNamesOf(id)
         /\ Len(call.res.m[id].Labels) = Cardinality(LabelNamesOf(id))

C4_MasterKeyIsFirstKey ==
  /\ Cardinality(master_key) <= 1
  /\ first_key # Nil => master_key = {[id |-> 0, key |-> first_key]}
  /\ call.op = "InsertMasterKey" => call.err = Nil
  /\ (call.op = "QueryMasterKey" /\ first_key # Nil) =>
       (call.res = first_key /\ call.err = Nil)

\* C4 witness: an insert of another key when the row already existed.
C4_Witness ==
  /\ call.op = "InsertMasterKey"
  /\ first_key # Nil
  /\ call.args[1] # first_key

\* C5: SecretsByIDs with no ids returns nil and ErrNoIDsProvided,
\* SecretsByLabelsAndName with no labels returns nil and ErrNoLabelsProvided,
\* neither calls the database handle nor changes a table, and the two errors
\* differ.
C5_EmptyArgumentsShortCircuit ==
  /\ [](/\ ErrNoIDsProvided # ErrNoLabelsProvided
        /\ (call.op = "SecretsByIDs" /\ Len(call.args[1]) = 0) =>
             (call.res.isNil /\ call.err = ErrNoIDsProvided /\ call.dbcalls = 0)
        /\ (call.op = "SecretsByLabelsAndName" /\ Len(call.args[2]) = 0) =>
             (call.res.isNil /\ call.err = ErrNoLabelsProvided /\ call.dbcalls = 0))
  /\ [][(\/ call'.op = "SecretsByIDs" /\ Len(call'.args[1]) = 0
         \/ call'.op = "SecretsByLabelsAndName" /\ Len(call'.args[2]) = 0)
        => UNCHANGED <<master_key, secrets, labels, last_insert_rowid>>]_vars

\* C5 witness: SecretsByIDs with no ids on a store that holds a labelled
\* secret.
C5_Witness ==
  /\ call.op = "SecretsByIDs"
  /\ Len(call.args[1]) = 0
  /\ JoinedRows # {}

\* The labels of the rows with the given id, in arrival order.
RECURSIVE LabelsInOrder(_, _)
LabelsInOrder(rows, id) ==
  IF rows = <<>> THEN <<>>
  ELSE IF Head(rows).id = id
       THEN <<Head(rows).label>> \o LabelsInOrder(Tail(rows), id)
       ELSE LabelsInOrder(Tail(rows), id)

FirstRowOf(rows, id) ==
  rows[CHOOSE i \in 1..Len(rows) :
         rows[i].id = id /\ \A j \in 1..(i - 1) : rows[j].id # id]

\* C6: reduce returns a mapping whose keys are the ids of the input; each
\* id's labels are the labels of its rows in arrival order, repeats kept, and
\* its name is the name of its first row; an empty input gives an empty
\* mapping.
C6_ReduceGroupsRowsInOrder ==
  call.op = "reduce" =>
    LET rows == call.args[1] IN
    /\ DOMAIN call.res = {rows[i].id : i \in 1..Len(rows)}
    /\ \A id \in DOMAIN call.res :
         /\ call.res[id].Labels = LabelsInOrder(rows, id)
         /\ call.res[id].Name = FirstRowOf(rows, id).name
    /\ rows = <<>> => call.res = <<>>

\* C6 witness: an id with three rows, a repeated (id, label) pair and a later
\* row carrying another name.
C6_Witness ==
  /\ call.op = "reduce"
  /\ LET rows == call.args[1] IN
     /\ Len(rows) = 3
     /\ rows[1].id = rows[2].id /\ rows[2].id = rows[3].id
     /\ rows[1].label = rows[3].label /\ rows[1].label # rows[2].label
     /\ rows[1].name # rows[2].name

\* C7: the labels table never holds two rows with the same (name, secret_id)
\* pair; an InsertLabel of a pair already present returns no error and leaves
\* the labels table unchanged.
C7_LabelPairsAreUnique ==
  /\ [](\A a, b \in labels :
          (a.name = b.name /\ a.secret_id = b.secret_id) => a = b)
  /\ [][(/\ call'.op = "InsertLabel"
         /\ \E l \in labels :
              l.name = call'.args[1] /\ l.secret_id = call'.args[2])
        => (labels' = labels /\ call'.err = Nil)]_vars

\* C7 witness: an InsertLabel that inserted nothing, the pair being held by
\* an older row, in a table of two labels.
C7_Witness ==
  /\ call.op = "InsertLabel" /\ call.err = Nil
  /\ Cardinality(labels) = 2
  /\ \E l \in labels :
       /\ l.name = call.args[1] /\ l.secret_id = call.args[2]
       /\ l.id < NextRowid(labels) - 1

\* C8: a successful InsertLabel(name, secretID) returns the id of the label
\* row that holds the pair (name, secretID), newly inserted or already
\* existing.
C8_InsertLabelReturnsRowId ==
  (call.op = "InsertLabel" /\ call.err = Nil) =>
    \E l \in labels :
      /\ l.id = call.res
      /\ l.name = call.args[1]
      /\ l.secret_id = call.args[2]

SqlVocabulary ==
  {"SELECT", "s.id", ",", "s.name", "AS", "secret_name", "l.name", "label",
   "FROM", "secrets", "s", "JOIN", "labels", "l", "ON", "=", "l.secret_id",
   "WHERE", "GLOB", "?", "OR", "AND", "IN", "(", ")"}

\* The parameters as the caller gave them, in placeholder order.
ExpectedParams ==
  CASE call.op = "SecretsByColumn" -> call.args[2]
    [] call.op = "SecretsByIDs" -> call.args[1]
    [] call.op = "SecretsByLabelsAndName" -> call.args[2] \o <<call.args[1]>>

\* C10: a search that reaches the database composes a text with as many "?"
\* placeholders as bound parameters, binds the parameters in placeholder
\* order (labels first, name last), and puts no pattern, id or name in the
\* text.
C10_PlaceholdersMatchParameters ==
  (call.op \in SearchOps /\ call.dbcalls > 0) =>
    /\ CountParams(call.query, Len(call.query)) = Len(call.qargs)
    /\ call.qargs = ExpectedParams
    /\ \A p \in 1..Len(call.query) :
         call.query[p] \in STRING /\ call.query[p] \in SqlVocabulary

\* C10 witness: SecretsByLabelsAndName with two label patterns and a name
\* pattern that differs from the first of them.
C10_Witness ==
  /\ call.op = "SecretsByLabelsAndName" /\ call.dbcalls > 0
  /\ Len(call.args[2]) = 2
  /\ call.args[1] # call.args[2][1]
  /\ Len(call.qargs) = 3

====
